---- MODULE Spec2Model ----
(***************************************************************************)
(* The GitHub provider of go-semantic-release (pkg/provider/github.go):    *)
(* Init, GetInfo, GetCommits, GetReleases and CreateRelease of             *)
(* GitHubRepository, run against a remote that serves a commit history and *)
(* a tag list in pages (the remote of the tests' githubHandler, with       *)
(* pagination and faults added).                                           *)
(*                                                                         *)
(* Text that the code takes apart (slug, refs, tags, versions, the tag     *)
(* regular expression) is a sequence of one-character strings; values the  *)
(* code only compares (SHAs, tokens, hosts, option values) are strings.    *)
(***************************************************************************)
EXTENDS Integers, Sequences, FiniteSets, TLC

VARIABLES
    config,           \* the provider options the host passes to Init
    env,              \* the process environment read by Init (os.Getenv)
    githubCommits,    \* remote: the commit history, newest first
    githubTags,       \* remote: the tag refs, in listing order
    pageCuts,         \* remote: where the remote cuts a served list into pages
    owner,            \* GitHubRepository.owner
    repo,             \* GitHubRepository.repo
    stripVTagPrefix,  \* GitHubRepository.stripVTagPrefix
    client,           \* GitHubRepository.client (NoClient: nil)
    compareCommits,   \* GitHubRepository.compareCommits
    phase,            \* "new" (constructed), "ready" (Init returned nil), "failed"
    last              \* the call that has just returned, NoCall when none is pending

vars == <<config, env, githubCommits, githubTags, pageCuts, owner, repo,
          stripVTagPrefix, client, compareCommits, phase, last>>

remoteVars == <<config, env, githubCommits, githubTags, pageCuts>>

(***************************************************************************)
(* Bounds of the model.                                                    *)
(***************************************************************************)
MaxCommits == 3
MaxTags == 2
MaxFault == 2

(***************************************************************************)
(* Text helpers (package strings).                                         *)
(***************************************************************************)
Digits == {"0", "1", "2", "3", "4", "5", "6", "7", "8", "9"}

Letters == {"a", "b", "c", "d", "e", "f", "g", "h", "i", "j", "k", "l", "m",
            "n", "o", "p", "q", "r", "s", "t", "u", "v", "w", "x", "y", "z"}

HasPrefix(s, p) == Len(s) >= Len(p) /\ SubSeq(s, 1, Len(p)) = p

HasSuffix(s, p) == Len(s) >= Len(p) /\ SubSeq(s, Len(s) - Len(p) + 1, Len(s)) = p

TrimPrefix(s, p) == IF HasPrefix(s, p) THEN SubSeq(s, Len(p) + 1, Len(s)) ELSE s

Contains(s, c) == \E i \in 1..Len(s) : s[i] = c

\* The first index of c in s, 0 when s has none.
IndexOf(s, c) == IF Contains(s, c) THEN CHOOSE i \in 1..Len(s) : s[i] = c /\ \A j \in 1..(i - 1) : s[j] # c ELSE 0

RECURSIVE Split(_, _)
SplitAt(s, c, i) == <<SubSeq(s, 1, i - 1)>> \o Split(SubSeq(s, i + 1, Len(s)), c)

Split(s, c) == IF ~Contains(s, c) THEN <<s>> ELSE SplitAt(s, c, IndexOf(s, c))

\* The longest prefix of s made of characters of set.
RECURSIVE SpanLen(_, _)
SpanLen(s, set) == IF s # <<>> /\ Head(s) \in set THEN 1 + SpanLen(Tail(s), set) ELSE 0

ContainsOnly(s, set) == \A i \in 1..Len(s) : s[i] \in set

(***************************************************************************)
(* strconv: ParseUint on a run of digits, %d, ParseBool.                   *)
(***************************************************************************)
DigitVal(c) == CASE c = "0" -> 0 [] c = "1" -> 1 [] c = "2" -> 2 [] c = "3" -> 3 [] c = "4" -> 4
                 [] c = "5" -> 5 [] c = "6" -> 6 [] c = "7" -> 7 [] c = "8" -> 8 [] c = "9" -> 9

DigitChar(n) == CASE n = 0 -> "0" [] n = 1 -> "1" [] n = 2 -> "2" [] n = 3 -> "3" [] n = 4 -> "4"
                  [] n = 5 -> "5" [] n = 6 -> "6" [] n = 7 -> "7" [] n = 8 -> "8" [] n = 9 -> "9"

RECURSIVE ParseUint(_)
ParseUint(s) == IF s = <<>> THEN 0 ELSE 10 * ParseUint(SubSeq(s, 1, Len(s) - 1)) + DigitVal(s[Len(s)])

RECURSIVE FormatUint(_)
FormatUint(n) == IF n < 10 THEN <<DigitChar(n)>> ELSE FormatUint(n \div 10) \o <<DigitChar(n % 10)>>

ParseBoolTrue == {"1", "t", "T", "TRUE", "true", "True"}

ParseBoolFalse == {"0", "f", "F", "FALSE", "false", "False"}

\* strconv.ParseBool: the value (false on an error) and whether it failed.
ParseBool(s) == [value |-> s \in ParseBoolTrue, err |-> s \notin ParseBoolTrue \cup ParseBoolFalse]

(***************************************************************************)
(* semver.NewVersion of Masterminds/semver v3 as GetReleases and           *)
(* CreateRelease call it: the loose pattern                                *)
(*   v?([0-9]+)(\.[0-9]+)?(\.[0-9]+)?(-pre)?(\+meta)?                      *)
(* anchored at both ends, the numbers read by ParseUint, a numeric         *)
(* prerelease segment with a leading zero refused.                         *)
(***************************************************************************)
NoVersion == [ok |-> FALSE]

SegmentChars == Digits \cup Letters \cup {"-"}

\* [0-9A-Za-z-]+(\.[0-9A-Za-z-]+)* : segments separated by dots, none empty.
AllSegments(segs) == \A i \in 1..Len(segs) : segs[i] # <<>> /\ ContainsOnly(segs[i], SegmentChars)

ValidSegments(s) == AllSegments(Split(s, "."))

NoLeadingZero(segs) == \A i \in 1..Len(segs) :
                           ~(ContainsOnly(segs[i], Digits) /\ Len(segs[i]) > 1 /\ segs[i][1] = "0")

validatePrerelease(p) == NoLeadingZero(Split(p, "."))

\* An optional "." digits+ group at the head of s: [n, rest].
DotNumberOf(s, k) == [n |-> ParseUint(SubSeq(s, 2, k + 1)), rest |-> SubSeq(s, k + 2, Len(s))]

DotNumber(s) ==
    IF Len(s) >= 2 /\ s[1] = "." /\ s[2] \in Digits THEN DotNumberOf(s, SpanLen(Tail(s), Digits))
    ELSE [n |-> 0, rest |-> s]

\* The text before the first "+" of s, and the text from it on.
BeforePlus(s, plus) == IF plus = 0 THEN s ELSE SubSeq(s, 1, plus - 1)

FromPlus(s, plus) == IF plus = 0 THEN <<>> ELSE SubSeq(s, plus, Len(s))

VersionChecked(major, minor, patch, pre, meta) ==
    IF meta # <<>> /\ ~ValidSegments(meta) THEN NoVersion
    ELSE IF ~validatePrerelease(pre) THEN NoVersion
    ELSE [ok |-> TRUE, major |-> major, minor |-> minor, patch |-> patch, pre |-> pre, metadata |-> meta]

\* tail: what follows the prerelease; it is empty or "+" and the metadata.
VersionMeta(major, minor, patch, hasPre, pre, tail) ==
    IF hasPre /\ ~ValidSegments(pre) THEN NoVersion
    ELSE IF tail = <<>> THEN VersionChecked(major, minor, patch, pre, <<>>)
    ELSE IF tail[1] # "+" \/ Len(tail) = 1 THEN NoVersion
    ELSE VersionChecked(major, minor, patch, pre, Tail(tail))

VersionPrePlus(major, minor, patch, afterDash, plus) ==
    VersionMeta(major, minor, patch, TRUE, BeforePlus(afterDash, plus), FromPlus(afterDash, plus))

\* tail: what follows the numbers.
VersionPre(major, minor, patch, tail) ==
    IF tail # <<>> /\ tail[1] = "-" THEN VersionPrePlus(major, minor, patch, Tail(tail), IndexOf(Tail(tail), "+"))
    ELSE VersionMeta(major, minor, patch, FALSE, <<>>, tail)

VersionPatch(major, minor, pa) == VersionPre(major, minor, pa.n, pa.rest)

VersionMinor(major, mi) == VersionPatch(major, mi.n, DotNumber(mi.rest))

VersionMajor(s, k) ==
    IF k = 0 THEN NoVersion
    ELSE VersionMinor(ParseUint(SubSeq(s, 1, k)), DotNumber(SubSeq(s, k + 1, Len(s))))

VersionDigits(s) == VersionMajor(s, SpanLen(s, Digits))

\* Mutant: the strict parser, which takes no leading "v".
NewVersionStrict(v) == VersionDigits(v)

NewVersion(v) == VersionDigits(IF v # <<>> /\ v[1] = "v" THEN Tail(v) ELSE v)

\* Version.String(): major.minor.patch[-pre][+metadata].
VersionString(ver) ==
    FormatUint(ver.major) \o <<".">> \o FormatUint(ver.minor) \o <<".">> \o FormatUint(ver.patch)
        \o (IF ver.pre # <<>> THEN <<"-">> \o ver.pre ELSE <<>>)
        \o (IF ver.metadata # <<>> THEN <<"+">> \o ver.metadata ELSE <<>>)

(***************************************************************************)
(* regexp: the expressions the model passes to GetReleases are an optional *)
(* "^", literal characters and an optional final "[0-9]*".                 *)
(***************************************************************************)
DigitStar == <<"[", "0", "-", "9", "]", "*">>

MatchString(rawRe, s) ==
    LET anchored == rawRe # <<>> /\ rawRe[1] = "^"
        body == IF anchored THEN Tail(rawRe) ELSE rawRe
        lit == IF HasSuffix(body, DigitStar) THEN SubSeq(body, 1, Len(body) - Len(DigitStar)) ELSE body
        starts == IF anchored THEN {1} ELSE 1..(Len(s) + 1)
    IN  \E i \in starts : i + Len(lit) - 1 <= Len(s) /\ SubSeq(s, i, i + Len(lit) - 1) = lit

(***************************************************************************)
(* The remote, after the tests' githubHandler: it answers the routes of    *)
(* owner/test-repo only. A served list is cut into pages at pageCuts and   *)
(* each page names its successor in NextPage (0: none), as the REST API    *)
(* does through the Link header.                                           *)
(***************************************************************************)
githubOwnerLogin == <<"o", "w", "n", "e", "r">>

githubRepoName == <<"t", "e", "s", "t", "-", "r", "e", "p", "o">>

githubRepo == [Owner |-> githubOwnerLogin, Name |-> githubRepoName,
               DefaultBranch |-> "master", Private |-> TRUE]

RouteOk(o, r) == o = githubOwnerLogin /\ r = githubRepoName

NoFault == [at |-> 0, status |-> 0]

\* The remote as the operations see it.
Remote == [commits |-> githubCommits, tags |-> githubTags, cuts |-> pageCuts]

\* The k-th smallest element of a set of numbers.
KthCut(cs, k) == CHOOSE c \in cs : Cardinality({d \in cs : d <= c}) = k

\* Page p of list (0 and 1 both name the first page): its items and NextPage.
Page(list, cuts, p) ==
    LET cs == {c \in cuts : c < Len(list)}
        n == Cardinality(cs) + 1
        q == IF p = 0 THEN 1 ELSE p
        from == IF q = 1 THEN 1 ELSE KthCut(cs, q - 1) + 1
        to == IF q = n THEN Len(list) ELSE KthCut(cs, q)
    IN  IF q > n THEN [items |-> <<>>, NextPage |-> 0]
        ELSE [items |-> SubSeq(list, from, to), NextPage |-> IF q < n THEN q + 1 ELSE 0]

\* 0-based index of the first commit with this SHA, 0 when there is none.
FirstIndex(commits, sha) ==
    IF \E i \in 1..Len(commits) : commits[i].sha = sha
    THEN (CHOOSE i \in 1..Len(commits) :
              commits[i].sha = sha /\ \A j \in 1..(i - 1) : commits[j].sha # sha) - 1
    ELSE 0

\* 0-based index of the last commit with SHA sha and not SHA other, 0 when none.
LastIndex(commits, sha, other) ==
    LET hits == {i \in 1..Len(commits) : commits[i].sha = sha /\ commits[i].sha # other}
    IN  IF hits = {} THEN 0 ELSE (CHOOSE i \in hits : \A j \in hits : j <= i) - 1

\* GET /repos/owner/test-repo/commits?sha=toSha : the history from toSha on.
HandlerListCommits(commits, toSha) == SubSeq(commits, FirstIndex(commits, toSha) + 1, Len(commits))

\* GET /repos/owner/test-repo/compare/fromSha...toSha : githubCommits[start:end];
\* the slice panics when start > end and the request fails.
HandlerCompare(commits, fromSha, toSha) ==
    LET start == LastIndex(commits, toSha, "")
        end == LastIndex(commits, fromSha, toSha)
    IN  IF start > end THEN [err |-> "EOF", commits |-> <<>>]
        ELSE [err |-> "", commits |-> SubSeq(commits, start + 1, end)]

\* GET /repos/owner/test-repo/git/tags/<sha> : the object an annotated tag points to.
HandlerGetTag(sha) ==
    CASE sha = "12345678" -> [err |-> "", type |-> "commit", sha |-> "deadbeef"]
      [] sha = "tagoftag" -> [err |-> "", type |-> "tag", sha |-> "12345678"]
      [] OTHER -> [err |-> "invalid route", type |-> "", sha |-> ""]

(***************************************************************************)
(* GitHubRepository.Init                                                   *)
(***************************************************************************)
NoClient == [set |-> FALSE, host |-> "", token |-> ""]

NoCall == [op |-> "none"]

\* url.Parse of https://<host>/api/v3/ refuses a host with a space in it.
NewEnterpriseClientFails(gheHost) == gheHost \in {"bad host"}

\* Mutant: the slug is checked before the token.
InitRunSlugFirst(self, cfg, environ) ==
    LET gheHost == IF cfg.github_enterprise_host = "" THEN environ.GITHUB_ENTERPRISE_HOST
                   ELSE cfg.github_enterprise_host
        slug == IF cfg.slug = <<>> THEN environ.GITHUB_REPOSITORY ELSE cfg.slug
        token1 == IF cfg.token = "" THEN environ.GITHUB_TOKEN ELSE cfg.token
        token == IF token1 = "" THEN environ.GH_TOKEN ELSE token1
        split == Split(slug, "/")
        s1 == [self EXCEPT !.owner = split[1], !.repo = split[2]]
        s2 == [s1 EXCEPT !.client = [set |-> TRUE, host |-> gheHost, token |-> token]]
        s3 == IF cfg.github_use_compare_commits = "true" THEN [s2 EXCEPT !.compareCommits = TRUE] ELSE s2
        s4 == [s3 EXCEPT !.stripVTagPrefix = ParseBool(cfg.strip_v_tag_prefix).value]
    IN  IF ~Contains(slug, "/") THEN [self |-> self, err |-> "invalid slug"]
        ELSE IF token = "" THEN [self |-> self, err |-> "github token missing"]
        ELSE IF gheHost # "" /\ NewEnterpriseClientFails(gheHost) THEN [self |-> s1, err |-> "parse error"]
        ELSE IF cfg.strip_v_tag_prefix # "" /\ ParseBool(cfg.strip_v_tag_prefix).err
             THEN [self |-> s4, err |-> "failed to set property strip_v_tag_prefix"]
        ELSE [self |-> s4, err |-> ""]

\* Mutant: github_use_compare_commits is read with ParseBool.
InitRunParseBoolCompare(self, cfg, environ) ==
    LET gheHost == IF cfg.github_enterprise_host = "" THEN environ.GITHUB_ENTERPRISE_HOST
                   ELSE cfg.github_enterprise_host
        slug == IF cfg.slug = <<>> THEN environ.GITHUB_REPOSITORY ELSE cfg.slug
        token1 == IF cfg.token = "" THEN environ.GITHUB_TOKEN ELSE cfg.token
        token == IF token1 = "" THEN environ.GH_TOKEN ELSE token1
        split == Split(slug, "/")
        s1 == [self EXCEPT !.owner = split[1], !.repo = split[2]]
        s2 == [s1 EXCEPT !.client = [set |-> TRUE, host |-> gheHost, token |-> token]]
        s3 == IF ParseBool(cfg.github_use_compare_commits).value THEN [s2 EXCEPT !.compareCommits = TRUE] ELSE s2
        s4 == [s3 EXCEPT !.stripVTagPrefix = ParseBool(cfg.strip_v_tag_prefix).value]
    IN  IF token = "" THEN [self |-> self, err |-> "github token missing"]
        ELSE IF ~Contains(slug, "/") THEN [self |-> self, err |-> "invalid slug"]
        ELSE IF gheHost # "" /\ NewEnterpriseClientFails(gheHost) THEN [self |-> s1, err |-> "parse error"]
        ELSE IF cfg.strip_v_tag_prefix # "" /\ ParseBool(cfg.strip_v_tag_prefix).err
             THEN [self |-> s4, err |-> "failed to set property strip_v_tag_prefix"]
        ELSE [self |-> s4, err |-> ""]

\* The fields and the error Init leaves, from the fields self it starts with.
InitRun(self, cfg, environ) ==
    LET gheHost == IF cfg.github_enterprise_host = "" THEN environ.GITHUB_ENTERPRISE_HOST
                   ELSE cfg.github_enterprise_host
        slug == IF cfg.slug = <<>> THEN environ.GITHUB_REPOSITORY ELSE cfg.slug
        token1 == IF cfg.token = "" THEN environ.GITHUB_TOKEN ELSE cfg.token
        token == IF token1 = "" THEN environ.GH_TOKEN ELSE token1
        split == Split(slug, "/")
        s1 == [self EXCEPT !.owner = split[1], !.repo = split[2]]
        s2 == [s1 EXCEPT !.client = [set |-> TRUE, host |-> gheHost, token |-> token]]
        s3 == IF cfg.github_use_compare_commits = "true" THEN [s2 EXCEPT !.compareCommits = TRUE] ELSE s2
        s4 == [s3 EXCEPT !.stripVTagPrefix = ParseBool(cfg.strip_v_tag_prefix).value]
    IN  IF token = "" THEN [self |-> self, err |-> "github token missing"]
        ELSE IF ~Contains(slug, "/") THEN [self |-> self, err |-> "invalid slug"]
        ELSE IF gheHost # "" /\ NewEnterpriseClientFails(gheHost) THEN [self |-> s1, err |-> "parse error"]
        ELSE IF cfg.strip_v_tag_prefix # "" /\ ParseBool(cfg.strip_v_tag_prefix).err
             THEN [self |-> s4, err |-> "failed to set property strip_v_tag_prefix"]
        ELSE [self |-> s4, err |-> ""]

Self == [owner |-> owner, repo |-> repo, stripVTagPrefix |-> stripVTagPrefix,
         client |-> client, compareCommits |-> compareCommits]

GitHubRepository_Init ==
    /\ phase = "new"
    /\ LET r == InitRun(Self, config, env)
       IN  /\ owner' = r.self.owner
           /\ repo' = r.self.repo
           /\ stripVTagPrefix' = r.self.stripVTagPrefix
           /\ client' = r.self.client
           /\ compareCommits' = r.self.compareCommits
           /\ phase' = IF r.err = "" THEN "ready" ELSE "failed"
           /\ last' = [op |-> "Init", err |-> r.err]
    /\ UNCHANGED remoteVars

(***************************************************************************)
(* GitHubRepository.GetInfo                                                *)
(***************************************************************************)
NilList == [isNil |-> TRUE, items |-> <<>>]

List(items) == [isNil |-> FALSE, items |-> items]

GetInfoRun(self, fault) ==
    LET reqs == <<[api |-> "Repositories.Get", owner |-> self.owner, repo |-> self.repo]>>
    IN  IF ~RouteOk(self.owner, self.repo) THEN [self |-> self, ret |-> [isNil |-> TRUE], err |-> "invalid route", reqs |-> reqs]
        ELSE IF fault.at = 1 THEN [self |-> self, ret |-> [isNil |-> TRUE], err |-> "fault", reqs |-> reqs]
        ELSE [self |-> self,
              ret |-> [isNil |-> FALSE, Owner |-> githubRepo.Owner, Repo |-> githubRepo.Name,
                       DefaultBranch |-> githubRepo.DefaultBranch, Private |-> githubRepo.Private],
              err |-> "", reqs |-> reqs]

(***************************************************************************)
(* GitHubRepository.getCommitsFromGithub and GetCommits. The annotations   *)
(* of a RawCommit (author and committer data copied field by field) are    *)
(* left out.                                                               *)
(***************************************************************************)
CommitsRequest(cmp, fromSha, toSha, page) ==
    IF cmp THEN [api |-> "CompareCommits", base |-> fromSha, head |-> toSha, page |-> page]
    ELSE [api |-> "ListCommits", sha |-> toSha, page |-> page]

\* Mutant: base and head are handed to CompareCommits in the wrong order.
getCommitsFromGithubSwapped(self, rem, fault, n, cmp, fromSha, toSha, page) ==
    IF ~RouteOk(self.owner, self.repo) THEN [err |-> "invalid route", commits |-> <<>>, NextPage |-> 0]
    ELSE IF fault.at = n THEN [err |-> "fault", commits |-> <<>>, NextPage |-> 0]
    ELSE IF ~cmp
    THEN LET pg == Page(HandlerListCommits(rem.commits, toSha), rem.cuts, page)
         IN  [err |-> "", commits |-> pg.items, NextPage |-> pg.NextPage]
    ELSE LET c == HandlerCompare(rem.commits, toSha, fromSha)
             pg == Page(c.commits, rem.cuts, page)
         IN  IF c.err # "" THEN [err |-> c.err, commits |-> <<>>, NextPage |-> 0]
             ELSE [err |-> "", commits |-> pg.items, NextPage |-> pg.NextPage]

\* n: the ordinal of this request within the call (the fault strikes request fault.at).
getCommitsFromGithub(self, rem, fault, n, cmp, fromSha, toSha, page) ==
    IF ~RouteOk(self.owner, self.repo) THEN [err |-> "invalid route", commits |-> <<>>, NextPage |-> 0]
    ELSE IF fault.at = n THEN [err |-> "fault", commits |-> <<>>, NextPage |-> 0]
    ELSE IF ~cmp
    THEN LET pg == Page(HandlerListCommits(rem.commits, toSha), rem.cuts, page)
         IN  [err |-> "", commits |-> pg.items, NextPage |-> pg.NextPage]
    ELSE LET c == HandlerCompare(rem.commits, fromSha, toSha)
             pg == Page(c.commits, rem.cuts, page)
         IN  IF c.err # "" THEN [err |-> c.err, commits |-> <<>>, NextPage |-> 0]
             ELSE [err |-> "", commits |-> pg.items, NextPage |-> pg.NextPage]

RawCommit(c) == [SHA |-> c.sha, RawMessage |-> c.msg]

\* for _, commit := range commits: append until, in list mode, fromSha shows up.
RECURSIVE ScanCommits(_, _, _, _, _)
\* Mutant: the fromSha commit stops the loop in compare mode too.
ScanCommitsStopsInCompare(commits, i, cmp, fromSha, allCommits) ==
    IF i > Len(commits) THEN [allCommits |-> allCommits, done |-> FALSE]
    ELSE IF commits[i].sha = fromSha THEN [allCommits |-> allCommits, done |-> TRUE]
    ELSE ScanCommits(commits, i + 1, cmp, fromSha, Append(allCommits, RawCommit(commits[i])))

\* Mutant: the fromSha commit is appended before the loop stops.
ScanCommitsInclusive(commits, i, cmp, fromSha, allCommits) ==
    IF i > Len(commits) THEN [allCommits |-> allCommits, done |-> FALSE]
    ELSE IF ~cmp /\ commits[i].sha = fromSha
    THEN [allCommits |-> Append(allCommits, RawCommit(commits[i])), done |-> TRUE]
    ELSE ScanCommits(commits, i + 1, cmp, fromSha, Append(allCommits, RawCommit(commits[i])))

ScanCommits(commits, i, cmp, fromSha, allCommits) ==
    IF i > Len(commits) THEN [allCommits |-> allCommits, done |-> FALSE]
    ELSE IF ~cmp /\ commits[i].sha = fromSha THEN [allCommits |-> allCommits, done |-> TRUE]
    ELSE ScanCommits(commits, i + 1, cmp, fromSha, Append(allCommits, RawCommit(commits[i])))

\* The for loop of GetCommits from the request of page `page` on.
RECURSIVE GetCommitsLoop(_, _, _, _, _, _, _, _, _)
\* Mutant: a failing page returns the commits collected so far with the error.
GetCommitsLoopPartialOnError(self, rem, fault, cmp, fromSha, toSha, page, allCommits, reqs) ==
    LET resp == getCommitsFromGithub(self, rem, fault, Len(reqs) + 1, cmp, fromSha, toSha, page)
        reqs2 == Append(reqs, CommitsRequest(cmp, fromSha, toSha, page))
        sc == ScanCommits(resp.commits, 1, cmp, fromSha, allCommits)
    IN  IF resp.err # "" THEN [self |-> self, ret |-> List(allCommits), err |-> resp.err, reqs |-> reqs2]
        ELSE IF sc.done \/ resp.NextPage = 0
        THEN [self |-> self, ret |-> List(sc.allCommits), err |-> "", reqs |-> reqs2]
        ELSE GetCommitsLoop(self, rem, fault, cmp, fromSha, toSha, resp.NextPage, sc.allCommits, reqs2)

\* Mutant: the next request asks for page + 1 instead of resp.NextPage.
GetCommitsLoopPagePlusOne(self, rem, fault, cmp, fromSha, toSha, page, allCommits, reqs) ==
    LET resp == getCommitsFromGithub(self, rem, fault, Len(reqs) + 1, cmp, fromSha, toSha, page)
        reqs2 == Append(reqs, CommitsRequest(cmp, fromSha, toSha, page))
        sc == ScanCommits(resp.commits, 1, cmp, fromSha, allCommits)
    IN  IF resp.err # "" THEN [self |-> self, ret |-> NilList, err |-> resp.err, reqs |-> reqs2]
        ELSE IF sc.done \/ resp.NextPage = 0
        THEN [self |-> self, ret |-> List(sc.allCommits), err |-> "", reqs |-> reqs2]
        ELSE GetCommitsLoop(self, rem, fault, cmp, fromSha, toSha, page + 1, sc.allCommits, reqs2)

GetCommitsLoop(self, rem, fault, cmp, fromSha, toSha, page, allCommits, reqs) ==
    LET resp == getCommitsFromGithub(self, rem, fault, Len(reqs) + 1, cmp, fromSha, toSha, page)
        reqs2 == Append(reqs, CommitsRequest(cmp, fromSha, toSha, page))
        sc == ScanCommits(resp.commits, 1, cmp, fromSha, allCommits)
    IN  IF resp.err # "" THEN [self |-> self, ret |-> NilList, err |-> resp.err, reqs |-> reqs2]
        ELSE IF sc.done \/ resp.NextPage = 0
        THEN [self |-> self, ret |-> List(sc.allCommits), err |-> "", reqs |-> reqs2]
        ELSE GetCommitsLoop(self, rem, fault, cmp, fromSha, toSha, resp.NextPage, sc.allCommits, reqs2)

\* Mutant: compare mode stays on for an empty fromSha.
UseCompareAlways(self, fromSha) == self.compareCommits

\* The mode GetCommits works in: compare mode is off for an empty fromSha.
UseCompare(self, fromSha) == IF self.compareCommits /\ fromSha = "" THEN FALSE ELSE self.compareCommits

\* Mutant: the field itself, not a local copy, is switched off for an empty fromSha.
GetCommitsRunSwitchesOff(self, rem, fault, fromSha, toSha) ==
    [GetCommitsLoop(self, rem, fault, UseCompare(self, fromSha), fromSha, toSha, 0, <<>>, <<>>)
        EXCEPT !.self = [self EXCEPT !.compareCommits = UseCompare(self, fromSha)]]

GetCommitsRun(self, rem, fault, fromSha, toSha) ==
    GetCommitsLoop(self, rem, fault, UseCompare(self, fromSha), fromSha, toSha, 0, <<>>, <<>>)

(***************************************************************************)
(* GitHubRepository.GetReleases                                            *)
(***************************************************************************)
refsTags == <<"r", "e", "f", "s", "/", "t", "a", "g", "s", "/">>

\* Mutant: an annotated tag keeps the SHA of its tag object.
ProcessRefNoDeref(self, r, rawRe, acc) ==
    LET tag == TrimPrefix(r.ref, refsTags)
        objType == r.type
        resTag == IF RouteOk(self.owner, self.repo) THEN HandlerGetTag(r.sha)
                  ELSE [err |-> "invalid route", type |-> "", sha |-> ""]
        reqs2 == IF objType = "tag" THEN Append(acc.reqs, [api |-> "GetTag", sha |-> r.sha]) ELSE acc.reqs
        version == NewVersion(tag)
    IN  IF rawRe # <<>> /\ ~MatchString(rawRe, tag) THEN acc
        ELSE IF objType # "commit" /\ objType # "tag" THEN acc
        ELSE IF objType = "tag" /\ resTag.err # "" THEN [all |-> acc.all, reqs |-> reqs2]
        ELSE IF objType = "tag" /\ resTag.type # "commit" THEN [all |-> acc.all, reqs |-> reqs2]
        ELSE IF ~version.ok THEN [all |-> acc.all, reqs |-> reqs2]
        ELSE [all |-> Append(acc.all, [SHA |-> r.sha, Version |-> VersionString(version)]),
              reqs |-> reqs2]

\* The body of the loop over the refs of a page, for ref r: acc is [all, reqs].
ProcessRef(self, r, rawRe, acc) ==
    LET tag == TrimPrefix(r.ref, refsTags)
        objType == r.type
        resTag == IF RouteOk(self.owner, self.repo) THEN HandlerGetTag(r.sha)
                  ELSE [err |-> "invalid route", type |-> "", sha |-> ""]
        reqs2 == IF objType = "tag" THEN Append(acc.reqs, [api |-> "GetTag", sha |-> r.sha]) ELSE acc.reqs
        foundSha == IF objType = "tag" THEN resTag.sha ELSE r.sha
        version == NewVersion(tag)
    IN  IF rawRe # <<>> /\ ~MatchString(rawRe, tag) THEN acc
        ELSE IF objType # "commit" /\ objType # "tag" THEN acc
        ELSE IF objType = "tag" /\ resTag.err # "" THEN [all |-> acc.all, reqs |-> reqs2]
        ELSE IF objType = "tag" /\ resTag.type # "commit" THEN [all |-> acc.all, reqs |-> reqs2]
        ELSE IF ~version.ok THEN [all |-> acc.all, reqs |-> reqs2]
        ELSE [all |-> Append(acc.all, [SHA |-> foundSha, Version |-> VersionString(version)]),
              reqs |-> reqs2]

RECURSIVE ScanRefs(_, _, _, _, _)
ScanRefs(self, refs, i, rawRe, acc) ==
    IF i > Len(refs) THEN acc
    ELSE ScanRefs(self, refs, i + 1, rawRe, ProcessRef(self, refs[i], rawRe, acc))

\* Git.ListMatchingRefs for page `page`, the n-th listing request of the call.
\* status 0: no response at all (resp == nil).
ListMatchingRefs(self, rem, fault, n, page) ==
    IF ~RouteOk(self.owner, self.repo) THEN [err |-> "invalid route", status |-> 501, refs |-> <<>>, NextPage |-> 0]
    ELSE IF fault.at = n THEN [err |-> "fault", status |-> fault.status, refs |-> <<>>, NextPage |-> 0]
    ELSE LET pg == Page(rem.tags, rem.cuts, page)
         IN  [err |-> "", status |-> 200, refs |-> pg.items, NextPage |-> pg.NextPage]

RECURSIVE GetReleasesLoop(_, _, _, _, _, _, _, _)
\* Mutant: a 404 drops the releases of the earlier pages.
GetReleasesLoopEmptyOn404(self, rem, fault, rawRe, page, n, allReleases, reqs) ==
    LET resp == ListMatchingRefs(self, rem, fault, n, page)
        reqs2 == Append(reqs, [api |-> "ListMatchingRefs", page |-> page])
        acc == ScanRefs(self, resp.refs, 1, rawRe, [all |-> allReleases, reqs |-> reqs2])
    IN  IF resp.status = 404 THEN [self |-> self, ret |-> List(<<>>), err |-> "", reqs |-> reqs2]
        ELSE IF resp.err # "" THEN [self |-> self, ret |-> NilList, err |-> resp.err, reqs |-> reqs2]
        ELSE IF resp.NextPage = 0 THEN [self |-> self, ret |-> List(acc.all), err |-> "", reqs |-> acc.reqs]
        ELSE GetReleasesLoop(self, rem, fault, rawRe, resp.NextPage, n + 1, acc.all, acc.reqs)

GetReleasesLoop(self, rem, fault, rawRe, page, n, allReleases, reqs) ==
    LET resp == ListMatchingRefs(self, rem, fault, n, page)
        reqs2 == Append(reqs, [api |-> "ListMatchingRefs", page |-> page])
        acc == ScanRefs(self, resp.refs, 1, rawRe, [all |-> allReleases, reqs |-> reqs2])
    IN  IF resp.status = 404 THEN [self |-> self, ret |-> List(allReleases), err |-> "", reqs |-> reqs2]
        ELSE IF resp.err # "" THEN [self |-> self, ret |-> NilList, err |-> resp.err, reqs |-> reqs2]
        ELSE IF resp.NextPage = 0 THEN [self |-> self, ret |-> List(acc.all), err |-> "", reqs |-> acc.reqs]
        ELSE GetReleasesLoop(self, rem, fault, rawRe, resp.NextPage, n + 1, acc.all, acc.reqs)

GetReleasesRun(self, rem, fault, rawRe) == GetReleasesLoop(self, rem, fault, rawRe, 0, 1, <<>>, <<>>)

(***************************************************************************)
(* GitHubRepository.CreateRelease. The remote accepts any ref and release  *)
(* unless the fault strikes (the handler's checks of the ref, the SHA and  *)
(* the tag name are the tests' assertions).                                *)
(***************************************************************************)
\* Mutant: the tag always gets the "v".
TagPrefixAlwaysV(self) == <<"v">>

TagPrefix(self) == IF self.stripVTagPrefix THEN <<>> ELSE <<"v">>

\* Mutant: the ref is created whatever the branch.
WithRefAlways(release) == TRUE

\* if release.Branch != release.SHA: CreateRelease creates the tag ref itself.
WithRef(release) == release.Branch # release.SHA

\* Mutant: only the flag of the call marks a prerelease.
IsPrereleaseFlagOnly(release) == release.Prerelease

\* isPrerelease, for a NewVersion that semver.MustParse accepts.
IsPrerelease(release) == release.Prerelease \/ NewVersion(release.NewVersion).pre # <<>>

\* semver.MustParse panics on a NewVersion that is no version: the call ends
\* there, before any request.
Panicked == [isNil |-> TRUE, panic |-> TRUE]

Returned == [isNil |-> TRUE, panic |-> FALSE]

\* Mutant: a failed CreateRef is ignored and the release is created all the same.
CreateReleaseRunRefErrorIgnored(self, fault, release) ==
    LET tag == TagPrefix(self) \o release.NewVersion
        refReq == [api |-> "CreateRef", ref |-> refsTags \o tag, sha |-> release.SHA]
        relReq == [api |-> "CreateRelease", TagName |-> tag, Name |-> tag,
                   TargetCommitish |-> release.Branch, Body |-> release.Changelog,
                   Prerelease |-> IsPrerelease(release)]
        reqs == IF WithRef(release) THEN <<refReq, relReq>> ELSE <<relReq>>
        bad == ~RouteOk(self.owner, self.repo)
    IN  IF ~NewVersion(release.NewVersion).ok
        THEN [self |-> self, ret |-> Panicked, err |-> "panic", reqs |-> <<>>]
        ELSE IF bad \/ fault.at = Len(reqs)
        THEN [self |-> self, ret |-> Returned, err |-> IF bad THEN "invalid route" ELSE "fault", reqs |-> reqs]
        ELSE [self |-> self, ret |-> Returned, err |-> "", reqs |-> reqs]

\* fault.at is the ordinal of the request the fault strikes: with a ref to
\* create, 1 is CreateRef and 2 is Repositories.CreateRelease.
CreateReleaseRun(self, fault, release) ==
    LET tag == TagPrefix(self) \o release.NewVersion
        refReq == [api |-> "CreateRef", ref |-> refsTags \o tag, sha |-> release.SHA]
        relReq == [api |-> "CreateRelease", TagName |-> tag, Name |-> tag,
                   TargetCommitish |-> release.Branch, Body |-> release.Changelog,
                   Prerelease |-> IsPrerelease(release)]
        reqs == IF WithRef(release) THEN <<refReq, relReq>> ELSE <<relReq>>
        bad == ~RouteOk(self.owner, self.repo)
    IN  IF ~NewVersion(release.NewVersion).ok
        THEN [self |-> self, ret |-> Panicked, err |-> "panic", reqs |-> <<>>]
        ELSE IF WithRef(release) /\ (bad \/ fault.at = 1)
        THEN [self |-> self, ret |-> Returned, err |-> IF bad THEN "invalid route" ELSE "fault", reqs |-> <<refReq>>]
        ELSE IF bad \/ fault.at = Len(reqs)
        THEN [self |-> self, ret |-> Returned, err |-> IF bad THEN "invalid route" ELSE "fault", reqs |-> reqs]
        ELSE [self |-> self, ret |-> Returned, err |-> "", reqs |-> reqs]

(***************************************************************************)
(* The calls of the host. A call is made when no result is pending; Return *)
(* is the host taking the result. Every call hands the fields back through *)
(* its Run operator's self.                                                *)
(***************************************************************************)
Shas == {"1111", "2222", "abcd"}

FromShas == {""} \cup Shas

CommitFaults == {NoFault} \cup {[at |-> k, status |-> 500] : k \in 1..MaxFault}

RefFaults == {NoFault} \cup {[at |-> k, status |-> st] : k \in 1..MaxFault, st \in {0, 404, 500}}

RawRes == {<<>>, <<"^", "v", "[", "0", "-", "9", "]", "*">>, <<"^", "2">>}

testSHA == "deadbeef"

NewVersions == {<<"2", ".", "0", ".", "0">>, <<"2", ".", "1", ".", "0", "-", "b", "e", "t", "a">>,
                <<"2", ".", "0", ".", "0", "+", "b", "1">>, <<"2", ".", "x">>}

ReleaseConfigs == [NewVersion : NewVersions, SHA : {testSHA}, Branch : {"", "master", testSHA},
                   Prerelease : BOOLEAN, Changelog : {"notes"}]

SetSelf(s) ==
    /\ owner' = s.owner
    /\ repo' = s.repo
    /\ stripVTagPrefix' = s.stripVTagPrefix
    /\ client' = s.client
    /\ compareCommits' = s.compareCommits

Idle == phase = "ready" /\ last = NoCall

GetInfo ==
    /\ Idle
    /\ \E fault \in CommitFaults :
           LET r == GetInfoRun(Self, fault)
           IN  /\ SetSelf(r.self)
               /\ last' = [op |-> "GetInfo", fault |-> fault, ret |-> r.ret, err |-> r.err, reqs |-> r.reqs]
    /\ UNCHANGED <<remoteVars, phase>>

GetCommits ==
    /\ Idle
    /\ \E fromSha \in FromShas, toSha \in Shas, fault \in CommitFaults :
           LET r == GetCommitsRun(Self, Remote, fault, fromSha, toSha)
           IN  /\ SetSelf(r.self)
               /\ last' = [op |-> "GetCommits", fromSha |-> fromSha, toSha |-> toSha, fault |-> fault,
                           ret |-> r.ret, err |-> r.err, reqs |-> r.reqs]
    /\ UNCHANGED <<remoteVars, phase>>

GetReleases ==
    /\ Idle
    /\ \E rawRe \in RawRes, fault \in RefFaults :
           LET r == GetReleasesRun(Self, Remote, fault, rawRe)
           IN  /\ SetSelf(r.self)
               /\ last' = [op |-> "GetReleases", rawRe |-> rawRe, fault |-> fault,
                           ret |-> r.ret, err |-> r.err, reqs |-> r.reqs]
    /\ UNCHANGED <<remoteVars, phase>>

CreateRelease ==
    /\ Idle
    /\ \E release \in ReleaseConfigs, fault \in CommitFaults :
           LET r == CreateReleaseRun(Self, fault, release)
           IN  /\ SetSelf(r.self)
               /\ last' = [op |-> "CreateRelease", release |-> release, fault |-> fault,
                           ret |-> r.ret, err |-> r.err, reqs |-> r.reqs]
    /\ UNCHANGED <<remoteVars, phase>>

Return ==
    /\ last # NoCall
    /\ last' = NoCall
    /\ UNCHANGED <<remoteVars, owner, repo, stripVTagPrefix, client, compareCommits, phase>>

Next == GitHubRepository_Init \/ GetInfo \/ GetCommits \/ GetReleases \/ CreateRelease \/ Return

(***************************************************************************)
(* Initial states: a freshly constructed GitHubRepository, the options and *)
(* the environment of the host, and a remote.                              *)
(***************************************************************************)
MsgAt(i) == <<"m1", "m2", "m3", "m4", "m5", "m6", "m7", "m8">>[i]

MakeHistory(shas) == [i \in 1..Len(shas) |-> [sha |-> shas[i], msg |-> MsgAt(i)]]

Histories == {MakeHistory(h) : h \in UNION {[1..n -> Shas] : n \in 0..MaxCommits}}

\* githubCommits of the tests.
testCommits == <<[sha |-> "abcd", msg |-> "feat(app): new new feature"],
                 [sha |-> "1111", msg |-> "feat: to"],
                 [sha |-> "abcd", msg |-> "feat(app): new feature"],
                 [sha |-> "dcba", msg |-> "Fix: bug"],
                 [sha |-> "cdba", msg |-> "Initial commit"],
                 [sha |-> "efcd", msg |-> "chore: break BREAKING CHANGE: breaks everything"],
                 [sha |-> "2222", msg |-> "feat: from"],
                 [sha |-> "beef", msg |-> "fix: test"]>>

createGithubRef(tag) == [ref |-> refsTags \o tag, type |-> "commit", sha |-> testSHA]

createGithubRefWithTag(tag, sha) == [ref |-> refsTags \o tag, type |-> "tag", sha |-> sha]

tagTest == <<"t", "e", "s", "t", "-", "t", "a", "g">>

tagV100 == <<"v", "1", ".", "0", ".", "0">>

tagV200 == <<"v", "2", ".", "0", ".", "0">>

tagV210beta == <<"v", "2", ".", "1", ".", "0", "-", "b", "e", "t", "a">>

tagV300beta2 == <<"v", "3", ".", "0", ".", "0", "-", "b", "e", "t", "a", ".", "2">>

tagV300beta1 == <<"v", "3", ".", "0", ".", "0", "-", "b", "e", "t", "a", ".", "1">>

tagDate == <<"2", "0", "2", "0", ".", "0", "4", ".", "1", "9">>

tagV111 == <<"v", "1", ".", "1", ".", "1">>

\* githubTags of the tests.
testTags == <<createGithubRef(tagTest), createGithubRef(tagV100), createGithubRef(tagV200),
              createGithubRef(tagV210beta), createGithubRef(tagV300beta2),
              createGithubRef(tagV300beta1), createGithubRef(tagDate),
              createGithubRefWithTag(tagV111, "12345678")>>

\* The refs a listed tag is drawn from: the kinds of the tests' tags, and
\* annotated tags whose object is missing or is itself a tag, and a tree.
TagRefs == {createGithubRef(tagTest), createGithubRef(tagV200),
            [ref |-> refsTags \o tagDate, type |-> "commit", sha |-> "beefdead"],
            createGithubRefWithTag(tagV111, "12345678"),
            createGithubRefWithTag(tagV210beta, "87654321"),
            createGithubRefWithTag(tagV100, "tagoftag"),
            [ref |-> refsTags \o tagV300beta1, type |-> "tree", sha |-> "beefdead"]}

TagLists == UNION {[1..n -> TagRefs] : n \in 0..MaxTags}

slugOwner == <<"o", "w", "n", "e", "r">>

slugOwnerRepo == githubOwnerLogin \o <<"/">> \o githubRepoName

slugEnv == <<"e", "/", "r">>

testConfig == [slug |-> slugOwnerRepo, token |-> "token", github_enterprise_host |-> "",
               github_use_compare_commits |-> "", strip_v_tag_prefix |-> ""]

noEnv == [GITHUB_ENTERPRISE_HOST |-> "", GITHUB_REPOSITORY |-> <<>>, GITHUB_TOKEN |-> "", GH_TOKEN |-> ""]

Configs == [slug : {<<>>, slugOwner, slugOwnerRepo}, token : {"", "token"},
            github_enterprise_host : {"", "github.enterprise", "bad host"},
            github_use_compare_commits : {"", "true", "1"},
            strip_v_tag_prefix : {"", "true", "false", "maybe"}]

Envs == [GITHUB_ENTERPRISE_HOST : {"", "env.host"}, GITHUB_REPOSITORY : {<<>>, slugEnv},
         GITHUB_TOKEN : {"", "github_token"}, GH_TOKEN : {"", "gh_token"}]

InitProvider ==
    /\ owner = <<>>
    /\ repo = <<>>
    /\ stripVTagPrefix = FALSE
    /\ client = NoClient
    /\ compareCommits = FALSE
    /\ phase = "new"
    /\ last = NoCall

\* Every combination of options and environment, the remote of the tests.
InitOptions ==
    /\ config \in Configs
    /\ env \in Envs
    /\ githubCommits = testCommits
    /\ githubTags = testTags
    /\ pageCuts = {}
    /\ InitProvider

\* Every history and page split, compare mode on and off.
InitHistory ==
    /\ config \in {[testConfig EXCEPT !.github_use_compare_commits = c] : c \in {"", "true", "1"}}
    /\ env = noEnv
    /\ githubCommits \in Histories \cup {testCommits}
    /\ githubTags = testTags
    /\ pageCuts \in SUBSET (1..(MaxCommits - 1))
    /\ InitProvider

\* Every tag list and page split.
InitTags ==
    /\ config = testConfig
    /\ env = noEnv
    /\ githubCommits = testCommits
    /\ githubTags \in TagLists \cup {testTags}
    /\ pageCuts \in SUBSET (1..(MaxTags - 1))
    /\ InitProvider

\* The tag prefix option, the remote of the tests.
InitRelease ==
    /\ config \in {[testConfig EXCEPT !.strip_v_tag_prefix = c] : c \in {"", "true", "false", "1"}}
    /\ env = noEnv
    /\ githubCommits = testCommits
    /\ githubTags = testTags
    /\ pageCuts \in SUBSET (1..(MaxTags - 1))
    /\ InitProvider

Init == InitOptions \/ InitHistory \/ InitTags \/ InitRelease

Spec == Init /\ [][Next]_vars

SpecOptions == InitOptions /\ [][Next]_vars

SpecHistory == InitHistory /\ [][Next]_vars

SpecTags == InitTags /\ [][Next]_vars

SpecPaging == (InitHistory \/ InitTags) /\ [][Next]_vars

SpecRelease == InitRelease /\ [][Next]_vars

(***************************************************************************)
(* Properties of GetCommits.                                               *)
(***************************************************************************)
IsGetCommits == last.op = "GetCommits"

\* The call that returned met no fault and a remote that knows the repository.
Served == last.fault = NoFault /\ RouteOk(owner, repo)

ShasOf(commits) == {commits[i].sha : i \in 1..Len(commits)}

\* What the server lists for toSha, as one list.
Listing(toSha) == HandlerListCommits(githubCommits, toSha)

\* The index of the first commit of list with this SHA, Len(list) + 1 when none.
FirstAt(list, sha) ==
    IF sha \in ShasOf(list)
    THEN CHOOSE i \in 1..Len(list) : list[i].sha = sha /\ \A j \in 1..(i - 1) : list[j].sha # sha
    ELSE Len(list) + 1

\* The commits of list before the first one with this SHA, as raw commits.
Before(list, sha) == [i \in 1..(FirstAt(list, sha) - 1) |-> [SHA |-> list[i].sha, RawMessage |-> list[i].msg]]

ListMode == IsGetCommits /\ ~UseCompare(Self, last.fromSha)

\* C1 as stated: in list mode GetCommits returns, in the server's order, the
\* commits listed from toSha that precede the first commit with SHA fromSha,
\* each with the SHA and message of the server's commit at its position, and
\* toSha (which the history holds) is among them.
C1_ListModeIncludesToSha ==
    (ListMode /\ Served /\ last.toSha \in ShasOf(githubCommits))
        => /\ last.err = ""
           /\ last.ret = List(Before(Listing(last.toSha), last.fromSha))
           /\ \E i \in 1..Len(last.ret.items) : last.ret.items[i].SHA = last.toSha

\* C1 amended: in list mode GetCommits returns, in the server's order, exactly
\* the commits listed from toSha that precede the first commit with SHA
\* fromSha, each with the SHA and message of the server's commit at its
\* position; toSha comes first among them unless fromSha equals toSha, and
\* then the result is empty.
C1_ListModePrefix ==
    (ListMode /\ Served)
        => /\ last.err = ""
           /\ last.ret = List(Before(Listing(last.toSha), last.fromSha))
           /\ \A i \in 1..Len(last.ret.items) : last.ret.items[i].SHA # last.fromSha
           /\ (last.toSha \in ShasOf(githubCommits) /\ last.fromSha # last.toSha)
                  => (last.ret.items # <<>> /\ last.ret.items[1].SHA = last.toSha)
           /\ (last.toSha \in ShasOf(githubCommits) /\ last.fromSha = last.toSha)
                  => last.ret.items = <<>>
           /\ (githubCommits = testCommits /\ last.fromSha = "2222" /\ last.toSha = "1111")
                  => [i \in 1..Len(last.ret.items) |-> last.ret.items[i].SHA]
                         = <<"1111", "abcd", "dcba", "cdba", "efcd">>

\* A list-mode call that returned some commits and left the fromSha commit
\* and a commit after it out.
C1_Witness ==
    /\ ListMode /\ Served
    /\ last.ret.items # <<>>
    /\ FirstAt(Listing(last.toSha), last.fromSha) < Len(Listing(last.toSha))

NoRepeats(commits) == \A i, j \in 1..Len(commits) : commits[i].sha = commits[j].sha => i = j

\* What the same call returns with the provider's compareCommits set to b.
InMode(b) == GetCommitsRun([Self EXCEPT !.compareCommits = b], Remote, last.fault, last.fromSha, last.toSha)

SameInBothModes == InMode(TRUE).ret = InMode(FALSE).ret /\ (InMode(TRUE).err = "") = (InMode(FALSE).err = "")

\* C2 as stated: for every non-empty fromSha and every toSha GetCommits
\* returns the same commits with compareCommits on as with it off (here even
\* for a history that lists no SHA twice and holds toSha).
C2_CompareEqualsListAlways ==
    (IsGetCommits /\ Served /\ last.fromSha # "" /\ NoRepeats(githubCommits)
        /\ last.toSha \in ShasOf(githubCommits))
        => SameInBothModes

\* The history lists sha exactly once.
ListedOnce(sha) == Cardinality({i \in 1..Len(githubCommits) : githubCommits[i].sha = sha}) = 1

\* C2 amended: for every toSha and every fromSha that the history lists once
\* each, fromSha after toSha, and with no request failing, GetCommits returns
\* the same sequence of commits with compareCommits on as with it off,
\* whatever the page split.
C2_CompareEqualsList ==
    (IsGetCommits /\ Served /\ last.fromSha # ""
        /\ ListedOnce(last.fromSha) /\ ListedOnce(last.toSha)
        /\ FirstAt(githubCommits, last.toSha) < FirstAt(githubCommits, last.fromSha))
        => /\ SameInBothModes
           /\ last.ret = InMode(TRUE).ret
           /\ last.err = ""
           /\ last.ret.items # <<>>

\* A compare-mode call that returned commits from more than one page.
C2_Witness ==
    /\ IsGetCommits /\ Served /\ UseCompare(Self, last.fromSha)
    /\ ListedOnce(last.fromSha) /\ ListedOnce(last.toSha)
    /\ FirstAt(githubCommits, last.toSha) < FirstAt(githubCommits, last.fromSha)
    /\ Len(last.reqs) > 1
    /\ Len(last.ret.items) > 1

(***************************************************************************)
(* Pagination.                                                             *)
(***************************************************************************)
IsGetReleases == last.op = "GetReleases"

IsPaged(r) == r.api \in {"ListCommits", "CompareCommits", "ListMatchingRefs"}

PagedReqs == SelectSeq(last.reqs, IsPaged)

\* The list the remote cuts into pages for the call that returned.
ServedList ==
    IF IsGetReleases THEN githubTags
    ELSE IF UseCompare(Self, last.fromSha) THEN HandlerCompare(githubCommits, last.fromSha, last.toSha).commits
    ELSE Listing(last.toSha)

\* The call that returned, against the same remote serving every list as one page.
OnOnePage ==
    IF IsGetReleases THEN GetReleasesRun(Self, [Remote EXCEPT !.cuts = {}], last.fault, last.rawRe)
    ELSE GetCommitsRun(Self, [Remote EXCEPT !.cuts = {}], last.fault, last.fromSha, last.toSha)

\* C3: whatever the split into pages, GetCommits and GetReleases ask for the
\* first page and then for the page each answer names in NextPage, and return
\* what they return when the remote serves the whole list as one page.
C3_PaginationSafe ==
    ((IsGetCommits \/ IsGetReleases) /\ Served)
        => /\ last.ret = OnOnePage.ret
           /\ last.err = OnOnePage.err
           /\ PagedReqs # <<>>
           /\ PagedReqs[1].page = 0
           /\ \A i \in 2..Len(PagedReqs) :
                  /\ PagedReqs[i].page = Page(ServedList, pageCuts, PagedReqs[i - 1].page).NextPage
                  /\ PagedReqs[i].page # 0

\* GetCommits asked for three pages and returned a commit of each.
C3_Witness ==
    /\ IsGetCommits /\ Served
    /\ Len(PagedReqs) = 3
    /\ Len(last.ret.items) = 3

(***************************************************************************)
(* Properties of GetReleases. What is expected of a tag is written down    *)
(* tag by tag for the tags of the model.                                   *)
(***************************************************************************)
TagOf(r) == SubSeq(r.ref, Len(refsTags) + 1, Len(r.ref))

\* The version string expected for a tag name, <<>> when it is no version.
ExpectedVersion(tag) ==
    CASE tag = tagV100 -> <<"1", ".", "0", ".", "0">>
      [] tag = tagV200 -> <<"2", ".", "0", ".", "0">>
      [] tag = tagV210beta -> <<"2", ".", "1", ".", "0", "-", "b", "e", "t", "a">>
      [] tag = tagV300beta2 -> <<"3", ".", "0", ".", "0", "-", "b", "e", "t", "a", ".", "2">>
      [] tag = tagV300beta1 -> <<"3", ".", "0", ".", "0", "-", "b", "e", "t", "a", ".", "1">>
      [] tag = tagDate -> <<"2", "0", "2", "0", ".", "4", ".", "1", "9">>
      [] tag = tagV111 -> <<"1", ".", "1", ".", "1">>
      [] OTHER -> <<>>

\* Whether a tag name matches one of the expressions of RawRes.
ExpectedMatch(rawRe, tag) ==
    CASE rawRe = <<>> -> TRUE
      [] rawRe = <<"^", "2">> -> tag[1] = "2"
      [] OTHER -> tag[1] = "v"

\* The only tag object of the remote that points to a commit, and that commit.
ResolvesToCommit(r) == r.type = "commit" \/ (r.type = "tag" /\ r.sha = "12345678")

Qualifies(r) ==
    /\ ExpectedMatch(last.rawRe, TagOf(r))
    /\ ResolvesToCommit(r)
    /\ ExpectedVersion(TagOf(r)) # <<>>

Qualified == SelectSeq(githubTags, Qualifies)

\* C4: GetReleases returns, in listing order, one release per tag ref whose
\* tag name matches rawRe (any name when rawRe is empty), whose object is a
\* commit or a tag resolving to one, and whose name is a semantic version;
\* the other refs are skipped without an error, and Version is the normalised
\* version ("v2.0.0" gives "2.0.0", "2020.04.19" gives "2020.4.19").
C4_ReleasesPerQualifyingTag ==
    (IsGetReleases /\ Served)
        => /\ last.err = ""
           /\ ~last.ret.isNil
           /\ [i \in 1..Len(last.ret.items) |-> last.ret.items[i].Version]
                  = [i \in 1..Len(Qualified) |-> ExpectedVersion(TagOf(Qualified[i]))]

\* A call with a regular expression that returned a release and skipped a ref.
C4_Witness ==
    /\ IsGetReleases /\ Served
    /\ last.rawRe # <<>>
    /\ Len(last.ret.items) = 1
    /\ Len(githubTags) = 2
    /\ last.ret.items[1].Version = <<"2", ".", "0", ".", "0">>

IsAnnotated(r) == r.type = "tag" /\ ExpectedMatch(last.rawRe, TagOf(r))

IsGetTag(r) == r.api = "GetTag"

TagObjectShas == {"12345678", "87654321", "tagoftag"}

\* C5: a release of an annotated tag carries the SHA of the commit its tag
\* object points to, never the tag object's; a ref whose tag object cannot be
\* fetched or points to no commit is skipped and GetReleases still succeeds;
\* a release of a commit ref carries the ref's SHA, and a tag is looked up
\* for the annotated tags only.
C5_AnnotatedTagDereferenced ==
    (IsGetReleases /\ Served)
        => /\ last.err = ""
           /\ [i \in 1..Len(last.ret.items) |-> last.ret.items[i].SHA]
                  = [i \in 1..Len(Qualified) |->
                         IF Qualified[i].type = "tag" THEN "deadbeef" ELSE Qualified[i].sha]
           /\ \A i \in 1..Len(last.ret.items) : last.ret.items[i].SHA \notin TagObjectShas
           /\ [i \in 1..Len(SelectSeq(last.reqs, IsGetTag)) |-> SelectSeq(last.reqs, IsGetTag)[i].sha]
                  = [i \in 1..Len(SelectSeq(githubTags, IsAnnotated)) |->
                         SelectSeq(githubTags, IsAnnotated)[i].sha]

\* A call that resolved one annotated tag and skipped another whose object
\* is missing.
C5_Witness ==
    /\ IsGetReleases /\ Served
    /\ Len(SelectSeq(last.reqs, IsGetTag)) = 2
    /\ Len(last.ret.items) = 1
    /\ last.ret.items[1] = [SHA |-> "deadbeef", Version |-> <<"1", ".", "1", ".", "1">>]

(***************************************************************************)
(* Properties of CreateRelease.                                            *)
(***************************************************************************)
IsCreateRelease == last.op = "CreateRelease"

\* The tag expected from the option and the version of the call.
ExpectedTag ==
    (IF config.strip_v_tag_prefix \in {"true", "1"} THEN <<>> ELSE <<"v">>) \o last.release.NewVersion

\* C6: CreateRelease publishes under "v" + NewVersion when strip_v_tag_prefix
\* is unset or false and under NewVersion when it is true: the ref it creates
\* is "refs/tags/" + that tag at release.SHA, and the release's tag name and
\* name are that tag.
C6_TagFromOption ==
    IsCreateRelease
        => /\ \A i \in 1..Len(last.reqs) :
                  /\ last.reqs[i].api = "CreateRef"
                         => /\ last.reqs[i].ref = <<"r", "e", "f", "s", "/", "t", "a", "g", "s", "/">> \o ExpectedTag
                            /\ last.reqs[i].sha = last.release.SHA
                  /\ last.reqs[i].api = "CreateRelease"
                         => /\ last.reqs[i].TagName = ExpectedTag
                            /\ last.reqs[i].Name = ExpectedTag
           /\ last.err = "" => last.reqs[Len(last.reqs)].api = "CreateRelease"
           /\ (last.err = "" /\ last.release.Branch # last.release.SHA) => last.reqs[1].api = "CreateRef"
           /\ (config.strip_v_tag_prefix = "" /\ last.release.NewVersion = <<"2", ".", "0", ".", "0">>)
                  => \A i \in 1..Len(last.reqs) :
                         last.reqs[i].api = "CreateRelease" => last.reqs[i].TagName = tagV200

\* A release published without the "v", its ref created first.
C6_Witness ==
    /\ IsCreateRelease
    /\ last.err = ""
    /\ config.strip_v_tag_prefix = "true"
    /\ Len(last.reqs) = 2
    /\ last.reqs[2].TagName = <<"2", ".", "0", ".", "0">>

(***************************************************************************)
(* Properties of Init.                                                     *)
(***************************************************************************)
IsInit == last.op = "Init"

TokenMissing == config.token = "" /\ env.GITHUB_TOKEN = "" /\ env.GH_TOKEN = ""

\* The first non-empty of the config token, GITHUB_TOKEN and GH_TOKEN.
FirstToken ==
    CASE config.token # "" -> config.token
      [] config.token = "" /\ env.GITHUB_TOKEN # "" -> env.GITHUB_TOKEN
      [] OTHER -> env.GH_TOKEN

\* The slug Init reads has the form owner/repo.
SlugGiven ==
    \/ config.slug = slugOwnerRepo
    \/ config.slug = <<>> /\ env.GITHUB_REPOSITORY = slugEnv

\* The options Init reads after the slug are usable: no enterprise host that
\* gives no URL, and strip_v_tag_prefix empty or a boolean.
OtherOptionsUsable ==
    /\ config.github_enterprise_host # "bad host"
    /\ config.strip_v_tag_prefix \in {"", "true", "false"}

Untouched == owner = <<>> /\ repo = <<>> /\ client = NoClient /\ ~compareCommits /\ ~stripVTagPrefix

\* C7 as stated: Init fails with "github token missing" when the config token,
\* GITHUB_TOKEN and GH_TOKEN are all empty, whatever the other options; with a
\* token and a slug of the form owner/repo it succeeds, the token used being
\* the first non-empty of the three.
C7_InitSucceedsWithTokenAndSlug ==
    IsInit
        => /\ TokenMissing => last.err = "github token missing"
           /\ (~TokenMissing /\ SlugGiven) => (last.err = "" /\ client.token = FirstToken)

\* C7 amended: Init fails with "github token missing" when the config token,
\* GITHUB_TOKEN and GH_TOKEN are all empty, whatever the slug and the other
\* options (the token is checked before the slug); otherwise the token used
\* is the first non-empty of the three, and Init with a token and a slug of
\* the form owner/repo succeeds provided the enterprise host, if any, gives a
\* URL and strip_v_tag_prefix is empty or a boolean.
C7_InitTokenFirst ==
    IsInit
        => /\ TokenMissing => (last.err = "github token missing" /\ phase = "failed" /\ Untouched)
           /\ (~TokenMissing /\ ~SlugGiven) => (last.err = "invalid slug" /\ Untouched)
           /\ (~TokenMissing /\ client.set) => client.token = FirstToken
           /\ (~TokenMissing /\ SlugGiven /\ OtherOptionsUsable)
                  => (last.err = "" /\ phase = "ready" /\ client.set /\ client.token = FirstToken)
           /\ (config = testConfig /\ env = noEnv) => (last.err = "" /\ owner = githubOwnerLogin /\ repo = githubRepoName)

\* Init succeeded with GH_TOKEN, the last of the three sources.
C7_Witness ==
    /\ IsInit
    /\ last.err = ""
    /\ config.token = "" /\ env.GITHUB_TOKEN = ""
    /\ client.token = "gh_token"

(***************************************************************************)
(* The mode of GetCommits.                                                 *)
(***************************************************************************)
AllRequests(api) == last.reqs # <<>> /\ \A i \in 1..Len(last.reqs) : last.reqs[i].api = api

\* C8 as stated: after Init with github_use_compare_commits=true GetCommits
\* fetches through the compare API, and with the option absent or of any
\* other value through the listing API.
C8_CompareOptionAlways ==
    IsGetCommits
        => /\ config.github_use_compare_commits = "true" => AllRequests("CompareCommits")
           /\ config.github_use_compare_commits # "true" => AllRequests("ListCommits")

\* C8 amended: after Init with github_use_compare_commits=true GetCommits
\* with a non-empty fromSha fetches through the compare API; with the option
\* absent or of any other value it fetches through the listing API.
C8_CompareOption ==
    IsGetCommits
        => /\ (config.github_use_compare_commits = "true" /\ last.fromSha # "")
                  => (AllRequests("CompareCommits") /\ compareCommits)
           /\ config.github_use_compare_commits # "true"
                  => (AllRequests("ListCommits") /\ ~compareCommits)

\* A call in compare mode that fetched two pages through the compare API.
C8_Witness ==
    /\ IsGetCommits /\ Served
    /\ config.github_use_compare_commits = "true"
    /\ Len(last.reqs) = 2
    /\ AllRequests("CompareCommits")
    /\ Len(last.ret.items) = 2

(***************************************************************************)
(* The fields between calls.                                               *)
(***************************************************************************)
ProviderOps == {"GetInfo", "GetCommits", "GetReleases", "CreateRelease"}

\* The call that returned, made again now, returns the same.
RepeatSame ==
    /\ IsGetCommits
           => /\ GetCommitsRun(Self, Remote, last.fault, last.fromSha, last.toSha).ret = last.ret
              /\ GetCommitsRun(Self, Remote, last.fault, last.fromSha, last.toSha).err = last.err
    /\ IsGetReleases
           => /\ GetReleasesRun(Self, Remote, last.fault, last.rawRe).ret = last.ret
              /\ GetReleasesRun(Self, Remote, last.fault, last.rawRe).err = last.err
    /\ last.op = "GetInfo"
           => /\ GetInfoRun(Self, last.fault).ret = last.ret
              /\ GetInfoRun(Self, last.fault).err = last.err

\* C9: after a successful Init no call of GetInfo, GetCommits, GetReleases or
\* CreateRelease, failed or not, changes owner, repo, stripVTagPrefix,
\* compareCommits or the client; GetCommits with an empty fromSha leaves
\* compare mode on, and a read that has returned, made again on the
\* unchanged remote, returns the same.
C9_NoStateBetweenCalls ==
    [][/\ (phase = "ready" /\ last'.op \in ProviderOps)
              => /\ Self' = Self
                 /\ phase' = "ready"
                 /\ (compareCommits /\ last'.op = "GetCommits" /\ last'.fromSha = "") => compareCommits'
       /\ last.op \in ProviderOps => RepeatSame]_vars

\* GetCommits with an empty fromSha has returned to a provider in compare mode.
C9_Witness ==
    /\ IsGetCommits
    /\ last.fromSha = ""
    /\ last.err = ""
    /\ compareCommits
    /\ phase = "ready"

\* C10: in compare mode GetCommits with an empty fromSha never calls the
\* compare endpoint: it lists, and returns every commit listed from toSha on
\* all the pages.
C10_FirstReleaseLists ==
    (IsGetCommits /\ compareCommits /\ last.fromSha = "")
        => /\ AllRequests("ListCommits")
           /\ Served
                  => /\ last.err = ""
                     /\ last.ret = List([i \in 1..Len(Listing(last.toSha)) |->
                                            [SHA |-> Listing(last.toSha)[i].sha,
                                             RawMessage |-> Listing(last.toSha)[i].msg]])
                     /\ Len(last.reqs) = Cardinality({c \in pageCuts : c < Len(Listing(last.toSha))}) + 1

\* A first release in compare mode: three commits listed on two pages.
C10_Witness ==
    /\ IsGetCommits /\ Served
    /\ compareCommits
    /\ last.fromSha = ""
    /\ Len(last.reqs) = 2
    /\ Len(last.ret.items) = 3

(***************************************************************************)
(* The requests of CreateRelease.                                          *)
(***************************************************************************)
ApiAt(i) == last.reqs[i].api

RefRequests == {i \in 1..Len(last.reqs) : ApiAt(i) = "CreateRef"}

ReleaseRequests == {i \in 1..Len(last.reqs) : ApiAt(i) = "CreateRelease"}

\* The create-ref request was sent and the remote refused it.
RefFailed == 1 \in RefRequests /\ (last.fault.at = 1 \/ ~RouteOk(owner, repo))

\* C11: in CreateRelease with release.Branch different from release.SHA the
\* tag ref is created strictly before the release: every create-release
\* request comes after a create-ref request; and when creating the ref fails
\* CreateRelease returns that error and sends no create-release request.
C11_RefBeforeRelease ==
    (IsCreateRelease /\ last.release.Branch # last.release.SHA)
        => /\ \A i \in ReleaseRequests : \E j \in RefRequests : j < i
           /\ last.err = "" => (RefRequests = {1} /\ ReleaseRequests = {2})
           /\ RefFailed
                  => /\ last.err = (IF RouteOk(owner, repo) THEN "fault" ELSE "invalid route")
                     /\ ReleaseRequests = {}
                     /\ Len(last.reqs) = 1

\* The creation of the ref failed: the call returned after that one request.
C11_Witness ==
    /\ IsCreateRelease
    /\ last.release.Branch = "master"
    /\ last.release.SHA = testSHA
    /\ last.fault.at = 1
    /\ last.err = "fault"
    /\ RefRequests = {1}

\* The inputs of NewVersions that are semantic versions.
IsVersion(v) == v \in {<<"2", ".", "0", ".", "0">>, <<"2", ".", "1", ".", "0", "-", "b", "e", "t", "a">>,
                        <<"2", ".", "0", ".", "0", "+", "b", "1">>}

\* The one request of a call that only creates the release.
OnlyRelease ==
    /\ Len(last.reqs) = 1
    /\ ApiAt(1) = "CreateRelease"
    /\ last.reqs[1].TargetCommitish = last.release.Branch

HasPrereleasePart(v) == v = <<"2", ".", "1", ".", "0", "-", "b", "e", "t", "a">>

\* C13: the release CreateRelease creates is marked as a prerelease if and
\* only if release.Prerelease is true or release.NewVersion has a prerelease
\* part; a plain version with release.Prerelease false is never marked.
C13_PrereleaseMark ==
    IsCreateRelease
        => /\ \A i \in ReleaseRequests :
                  last.reqs[i].Prerelease
                      <=> (last.release.Prerelease \/ HasPrereleasePart(last.release.NewVersion))
           /\ last.err = "" => ReleaseRequests # {}

\* A release of 2.1.0-beta marked as a prerelease though the call's flag is off.
C13_Witness ==
    /\ IsCreateRelease
    /\ last.err = ""
    /\ ~last.release.Prerelease
    /\ last.release.NewVersion = <<"2", ".", "1", ".", "0", "-", "b", "e", "t", "a">>
    /\ \E i \in ReleaseRequests : last.reqs[i].Prerelease

(***************************************************************************)
(* Failing pages.                                                          *)
(***************************************************************************)
\* The page boundaries of a list and the number of its pages.
CutsOf(list) == {c \in pageCuts : c < Len(list)}

PagesOf(list) == Cardinality(CutsOf(list)) + 1

\* The items of the pages of a list before page n.
EarlierPages(list, n) == IF n = 1 THEN <<>> ELSE SubSeq(list, 1, KthCut(CutsOf(list), n - 1))

\* The listing request last.fault.at of GetReleases was made and answered 404.
Struck404 ==
    /\ IsGetReleases
    /\ RouteOk(owner, repo)
    /\ last.fault.status = 404
    /\ last.fault.at \in 1..PagesOf(githubTags)

QualifiedEarlier == SelectSeq(EarlierPages(githubTags, last.fault.at), Qualifies)

\* C14: when a tag-listing request of GetReleases is answered with HTTP 404,
\* GetReleases returns without an error: an empty, non-nil list when the 404
\* comes on the first page, the releases collected from the earlier pages when
\* it comes on a later one.
C14_NotFoundIsNoError ==
    Struck404
        => /\ last.err = ""
           /\ ~last.ret.isNil
           /\ last.fault.at = 1 => last.ret.items = <<>>
           /\ [i \in 1..Len(last.ret.items) |-> last.ret.items[i].Version]
                  = [i \in 1..Len(QualifiedEarlier) |-> ExpectedVersion(TagOf(QualifiedEarlier[i]))]
           /\ Len(PagedReqs) = last.fault.at

\* The second page answered 404 and the release of the first page was returned.
C14_Witness ==
    /\ Struck404
    /\ last.fault.at = 2
    /\ last.err = ""
    /\ Len(last.ret.items) = 1

\* The paged request last.fault.at of the call was sent, and the fault is an
\* error for the call: any fault in GetCommits, any but a 404 in GetReleases.
PageFailed ==
    /\ IsGetCommits \/ IsGetReleases
    /\ last.fault.at \in 1..Len(PagedReqs)
    /\ IsGetReleases => last.fault.status # 404

\* C15: GetCommits and GetReleases never return a list together with an
\* error; when fetching a page fails (in GetReleases with a status other than
\* 404) the call returns a nil list and that error, whatever the earlier
\* pages gave, and the failed request is its last.
C15_NoPartialList ==
    (IsGetCommits \/ IsGetReleases)
        => /\ last.err # "" => last.ret = NilList
           /\ last.err = "" => ~last.ret.isNil
           /\ PageFailed
                  => /\ last.err = "fault"
                     /\ last.ret = NilList
                     /\ Len(PagedReqs) = last.fault.at

\* The second page of commits failed after a first page that gave a commit.
C15_Witness ==
    /\ IsGetCommits
    /\ PageFailed
    /\ last.fault.at = 2
    /\ last.err = "fault"
    /\ last.ret.isNil
    /\ Page(ServedList, pageCuts, 0).items # <<>>

(***************************************************************************)
(* The end of the page loops.                                              *)
(***************************************************************************)
\* What the remote answered to the i-th paged request of the call.
PageServed(i) == Page(ServedList, pageCuts, PagedReqs[i].page)

CompareMode == IsGetCommits /\ compareCommits /\ last.fromSha # ""

\* C16: the page loops stop: GetCommits and GetReleases send no request
\* after a page whose NextPage is 0, so no more requests than the list has
\* pages; GetCommits in list mode sends none after the page with the fromSha
\* commit; in compare mode a commit with the SHA fromSha does not stop the
\* loop and is returned like any other, every page being fetched.
C16_LoopsStop ==
    (IsGetCommits \/ IsGetReleases)
        => /\ Len(PagedReqs) \in 1..PagesOf(ServedList)
           /\ \A i \in 1..(Len(PagedReqs) - 1) : PageServed(i).NextPage # 0
           /\ (IsGetCommits /\ ~CompareMode)
                  => \A i \in 1..(Len(PagedReqs) - 1) : last.fromSha \notin ShasOf(PageServed(i).items)
           /\ (CompareMode /\ Served /\ last.err = "")
                  => /\ Len(PagedReqs) = PagesOf(ServedList)
                     /\ last.ret.items = [i \in 1..Len(ServedList) |->
                                             [SHA |-> ServedList[i].sha, RawMessage |-> ServedList[i].msg]]
           /\ (Served /\ last.err = "")
                  => \/ PageServed(Len(PagedReqs)).NextPage = 0
                     \/ /\ IsGetCommits /\ ~CompareMode
                        /\ last.fromSha \in ShasOf(PageServed(Len(PagedReqs)).items)

\* Compare mode: a commit with the SHA fromSha on the first of two pages did
\* not stop the loop, and it was returned.
C16_Witness ==
    /\ CompareMode /\ Served
    /\ last.err = ""
    /\ Len(PagedReqs) = 2
    /\ last.fromSha \in ShasOf(PageServed(1).items)
    /\ \E i \in 1..Len(last.ret.items) : last.ret.items[i].SHA = last.fromSha

====
